---- MODULE Spec2Model ----
(***************************************************************************)
(* Model of crate_inspector.py: the rank loop of main(), do_verify() and   *)
(* the Verifier / Git / CrateTarball operations it drives.  The registry,  *)
(* the archive contents and the remote repository are the environment:     *)
(* their answers are drawn nondeterministically at the call that asks.     *)
(***************************************************************************)
EXTENDS Integers, Sequences, FiniteSets, TLC

\* ------------------------------------------------------------------ bounds
\* number of rows of db.crates
NumCrates == 2
\* largest number of file members of one crate tarball
MaxMembers == 2

\* ------------------------------------------------------------- environment
\* Python's None (Verifier.repo, Verifier.commit_hash before assignment)
None == [tag |-> "None"]

\* crates.csv "repository" column: empty when the crate declares none
RepoUrls == {"", "https://github.com/o/r"}

\* bytes of a file: carriage return, line feed, any other byte
FileContents == {<<"x">>, <<"CR", "LF">>}

\* member names of a tarball, as <<stem, extension>>
MemberNames == {<<"src/lib", ".rs">>, <<"Cargo", ".toml">>}

\* re.match('.*\.rs$', member.name)
MatchesRs(name) == name[Len(name)] = ".rs"

\* members of a tarball; the bytes of a member that is no .rs file are
\* never read, so one content stands for them
Members == {m \in [name : MemberNames, data : FileContents] :
                MatchesRs(m.name) \/ m.data = <<"x">>}

RECURSIVE SeqsUpTo(_, _)
SeqsUpTo(S, n) ==
    IF n = 0 THEN {<<>>}
    ELSE LET shorter == SeqsUpTo(S, n - 1)
         IN  shorter \cup {Append(s, x) : s \in {t \in shorter : Len(t) = n - 1}, x \in S}

\* the .cargo_vcs_info.json member of a tarball: no such member, a member
\* that is not JSON, or a JSON object (with or without git / git.sha1)
VcsInfos ==
    { [tag |-> "absent"],
      [tag |-> "badjson"],
      [tag |-> "json", obj |-> [path |-> "x"]],
      [tag |-> "json", obj |-> [git |-> [dirty |-> "x"]]],
      [tag |-> "json", obj |-> [git |-> [sha1 |-> "c0ffee"]]] }

\* a valid gzip'ed tar archive
Archives == [tag : {"targz"}, vcs : VcsInfos, files : SeqsUpTo(Members, MaxMembers)]

\* response bodies: no bytes, bytes that are no archive, an archive
EmptyBody == [tag |-> "empty"]
GarbageBody == [tag |-> "garbage"]
Bodies == {EmptyBody, GarbageBody} \cup Archives

\* what urllib.request.urlopen does: a response, an HTTPError with a code,
\* or another error (URLError: registry unreachable)
FetchOutcomes ==
    [kind : {"response"}, code : {200}, body : Bodies]
      \cup { [kind |-> "HTTPError", code |-> 403, body |-> None],
             [kind |-> "HTTPError", code |-> 404, body |-> None],
             [kind |-> "URLError", code |-> 0, body |-> None] }

\* rows of db.crates that main() can be given: (name, repository); the
\* latest version string of every crate is CrateVersion
CrateName == <<"foo">>
CrateVersion == <<"1.2.3">>
CrateRows == [name : {CrateName}, url : RepoUrls]

\* --rank values, as the list val.split('-', 1) converted by int()
RankArgs == {<<n>> : n \in 0..(NumCrates - 1)} \cup {<<0, n>> : n \in 1..NumCrates}

\* ---------------------------------------------------------- pure functions
Range(s) == {s[i] : i \in DOMAIN s}

Min(a, b) == IF a < b THEN a ELSE b

\* parse_range: 'N' -> (N, N + 1); 'A-B' -> (A, B)
parse_range(vals) ==
    IF Len(vals) = 1 THEN <<vals[1], vals[1] + 1>> ELSE <<vals[1], vals[2]>>

\* b'\r\n' in data
HasCRLF(data) ==
    \E i \in 1..(Len(data) - 1) : data[i] = "CR" /\ data[i + 1] = "LF"

\* data.replace(b'\r\n', b'\n')
RECURSIVE ReplaceCRLF(_)
ReplaceCRLF(data) ==
    IF Len(data) = 0 THEN <<>>
    ELSE IF Len(data) >= 2 /\ data[1] = "CR" /\ data[2] = "LF"
         THEN <<"LF">> \o ReplaceCRLF(SubSeq(data, 3, Len(data)))
         ELSE <<data[1]>> \o ReplaceCRLF(SubSeq(data, 2, Len(data)))

\* hashit: sha1(b'blob ' + str(len(data)) + b'\0' + data), sha1 taken as
\* injective: the digest is identified with the bytes it is computed over
hashit(data) == <<"blob ", Len(data), "NUL">> \o data

\* a hash_blob that hashes the bytes as they are and nothing else
hash_blob_NoNormalize(data) == <<hashit(data)>>

\* Git.hash_blob: the raw hash, then the CRLF-normalized one if any CRLF
hash_blob(data) ==
    IF HasCRLF(data) THEN <<hashit(data), hashit(ReplaceCRLF(data))>>
    ELSE <<hashit(data)>>

\* every object id a blob scan of these archives can ask a repository for
ObjectIds == UNION {Range(hash_blob(d)) : d \in FileContents}

\* CrateTarball.examine_files('.*\.rs$'): the matching members, in order
RECURSIVE examine_files(_)
examine_files(files) ==
    IF files = <<>> THEN <<>>
    ELSE (IF MatchesRs(files[1].name) THEN <<files[1]>> ELSE <<>>)
            \o examine_files(Tail(files))

\* Git.blob_exists on a handle: git cat-file -e, check=False
blob_exists(handle, blob_hash) == blob_hash \in handle.objects

\* a candidate loop that asks for the raw hash only
FileInRepo_RawOnly(handle, data) == blob_exists(handle, hash_blob(data)[1])

\* search_blobs' inner loop: any candidate hash of the file is in the repo
FileInRepo(handle, data) ==
    \E i \in DOMAIN hash_blob(data) : blob_exists(handle, hash_blob(data)[i])

\* index of the first file of src that is not in the repo, 0 if none
FirstUnmatched(src, handle) ==
    IF \E i \in DOMAIN src : ~FileInRepo(handle, src[i].data)
    THEN CHOOSE i \in DOMAIN src :
            /\ ~FileInRepo(handle, src[i].data)
            /\ \A j \in 1..(i - 1) : FileInRepo(handle, src[j].data)
    ELSE 0

\* a search_blobs that stops at the first file that is not in the repo
search_blobs_ShortCircuit(files, handle) ==
    LET src == examine_files(files)
        stop == FirstUnmatched(src, handle)
    IN  [file_count |-> IF stop = 0 THEN Len(src) ELSE stop,
         files_unmatched |-> IF stop = 0 THEN 0 ELSE 1]

\* Verifier.search_blobs: (file_count, files_unmatched) of one full scan
search_blobs(files, handle) ==
    LET src == examine_files(files)
    IN  [file_count |-> Len(src),
         files_unmatched |->
            Cardinality({i \in DOMAIN src : ~FileInRepo(handle, src[i].data)})]

\* a metadata lookup that yields None instead of raising
ExtractCommit_Lenient(vcs) ==
    IF vcs.tag = "json" /\ "git" \in DOMAIN vcs.obj /\ "sha1" \in DOMAIN vcs.obj.git
    THEN [raised |-> FALSE, value |-> vcs.obj.git.sha1]
    ELSE [raised |-> FALSE, value |-> "None"]

\* CrateTarball.extract_crate_meta followed by meta['git']['sha1']
\* (Verifier.clone_shallow lines 329-334): the commit hash, or a raise
ExtractCommit(vcs) ==
    IF vcs.tag = "json" /\ "git" \in DOMAIN vcs.obj /\ "sha1" \in DOMAIN vcs.obj.git
    THEN [raised |-> FALSE, value |-> vcs.obj.git.sha1]
    ELSE [raised |-> TRUE, value |-> ""]

\* the four tag names match_tags tries, in its order
TagCandidates(nn, vv) ==
    << vv, <<"v">> \o vv, nn \o <<"-">> \o vv, nn \o <<"-", "v">> \o vv >>

\* tag names a repository may have at a commit
TagNames == Range(TagCandidates(CrateName, CrateVersion)) \cup {<<"release">>}

\* an or-chain that keeps the last candidate found among tags
FirstMatch_Last(cands, tags) ==
    IF \E i \in DOMAIN cands : cands[i] \in tags
    THEN CHOOSE i \in DOMAIN cands :
            cands[i] \in tags /\ \A j \in DOMAIN cands : j > i => cands[j] \notin tags
    ELSE 0

\* match_tags' or-chain of try_match: index of the first candidate that is
\* among tags, 0 when none is
FirstMatch(cands, tags) ==
    IF \E i \in DOMAIN cands : cands[i] \in tags
    THEN CHOOSE i \in DOMAIN cands :
            cands[i] \in tags /\ \A j \in 1..(i - 1) : cands[j] \notin tags
    ELSE 0

\* ------------------------------------------------------------------- state
VARIABLES
    call,         \* a call of one of the pure functions: its input and result
    crates,       \* db.crates, most popular first
    rank_arg,     \* the --rank argument as given
    rank,         \* args.rank = (rank_start, rank_end)
    dirs,         \* the temporary directories of Git() objects that exist on
                  \* disk, as <<index of the crate, index into handles>>
    index,        \* index of the crate the rank loop is at
    pc,           \* position in main() / do_verify()
    sleeps,       \* number of time.sleep(2) calls made by main()
    done,         \* per finished do_verify call, the statuses it ended with
    repo_url,     \* verifier.repo_url
    tarball,      \* verifier.tarball (None until download() sets it)
    commit_hash,  \* verifier.commit_hash
    handles,      \* the Git() objects made for this crate, in order
    repo,         \* verifier.repo: index into handles, 0 for None
    fetches,      \* outcomes of the urlopen calls made for this crate
    tag_log,      \* outcome of each match_tags call made for this crate
    scans,        \* result of each search_blobs call made for this crate
    results       \* terminal statuses this do_verify call has ended with

vars == <<call, crates, rank_arg, rank, dirs, index, pc, sleeps, done, repo_url,
          tarball, commit_hash, handles, repo, fetches, tag_log, scans, results>>

verifier == <<repo_url, tarball, commit_hash, handles, repo, fetches, tag_log,
              scans, results>>

loop == <<call, crates, rank_arg, rank, index, sleeps, done>>

\* no pure function is being called
NoCall == [fn |-> "none"]

\* number of Git.clone_shallow / Git.clone_full calls made for this crate
ShallowCalls == Cardinality({i \in DOMAIN handles : handles[i].mode = "shallow"})
FullCalls == Cardinality({i \in DOMAIN handles : handles[i].mode = "full"})

\* the crates the rank loop visits: db.crates[rank_start:rank_end]
RankEnd == Min(rank[2], Len(crates))

Init ==
    /\ call = NoCall
    /\ crates \in [1..NumCrates -> CrateRows]
    /\ rank_arg \in RankArgs
    /\ rank = parse_range(rank_arg)
    /\ dirs = {}
    /\ index = rank[1]
    /\ pc = "main"
    /\ sleeps = 0
    /\ done = <<>>
    /\ repo_url = ""
    /\ tarball = None
    /\ commit_hash = None
    /\ handles = <<>>
    /\ repo = 0
    /\ fetches = <<>>
    /\ tag_log = <<>>
    /\ scans = <<>>
    /\ results = <<>>

\* a loop that sleeps before every package, the first included
Delays_Always(i) == 1

\* main lines 452-454: time.sleep(2) runs once at the top of an iteration,
\* unless the iteration is the first of the slice
Delays(i) == IF i > rank[1] THEN 1 ELSE 0

\* main lines 450-457 and do_verify lines 392-400: the loop takes the next
\* row, sleeps unless it is the first, and builds the Verifier
MainLoop ==
    /\ pc = "main"
    /\ index < RankEnd
    /\ sleeps' = sleeps + Delays(index)
    /\ repo_url' = crates[index + 1].url
    /\ tarball' = None
    /\ commit_hash' = None
    /\ handles' = <<>>
    /\ repo' = 0
    /\ fetches' = <<>>
    /\ tag_log' = <<>>
    /\ scans' = <<>>
    /\ results' = <<>>
    /\ pc' = "check_url"
    /\ UNCHANGED <<call, crates, rank_arg, rank, dirs, index, done>>

\* main: the slice is exhausted, the process exits 0
MainExit ==
    /\ pc = "main"
    /\ index >= RankEnd
    /\ pc' = "exit"
    /\ UNCHANGED <<loop, verifier, dirs>>

\* a check_url that accepts every url, the empty one too
check_url_Any(url) == TRUE

\* Verifier.check_url: `if self.repo_url`
check_url(url) == url # ""

\* do_verify lines 401-403
CheckUrl ==
    /\ pc = "check_url"
    /\ IF check_url(repo_url)
       THEN /\ pc' = "download"
            /\ UNCHANGED results
       ELSE /\ results' = Append(results, "url-missing")
            /\ pc' = "returned"
    /\ UNCHANGED <<loop, dirs, repo_url, tarball, commit_hash, handles, repo,
                   fetches, tag_log, scans>>

\* a download_crate that re-raises every HTTPError, 403 included
download_crate_Raise403(outcome) ==
    IF outcome.kind = "response" THEN [raised |-> FALSE, value |-> outcome.body]
    ELSE [raised |-> TRUE, value |-> None]

\* download_crate: the bytes, None on HTTP 403, any other error re-raised
download_crate(outcome) ==
    IF outcome.kind = "response" THEN [raised |-> FALSE, value |-> outcome.body]
    ELSE IF outcome.kind = "HTTPError" /\ outcome.code = 403
         THEN [raised |-> FALSE, value |-> None]
         ELSE [raised |-> TRUE, value |-> None]

\* `not tarball_data`: None or b''
Falsy(data) == data = None \/ data = EmptyBody

\* Verifier.download called from do_verify; onRaise is where control goes
\* when download() raises
DownloadStep(onRaise) ==
    /\ pc = "download"
    /\ \E outcome \in FetchOutcomes :
        LET got == download_crate(outcome)
        IN  /\ fetches' = Append(fetches, [kind |-> outcome.kind, code |-> outcome.code,
                                           body |-> outcome.body.tag])
            /\ IF got.raised
               THEN \* line 287: re-raised
                    /\ pc' = onRaise
                    /\ UNCHANGED <<tarball, results>>
               ELSE IF Falsy(got.value)
               THEN \* line 283: download() returns False, do_verify returns
                    /\ results' = Append(results, "fetch-denied")
                    /\ pc' = "returned"
                    /\ UNCHANGED tarball
               ELSE IF got.value.tag # "targz"
               THEN \* line 292: tarfile.open raised, re-raised
                    /\ results' = Append(results, "archive-invalid")
                    /\ pc' = onRaise
                    /\ UNCHANGED tarball
               ELSE /\ tarball' = got.value
                    /\ pc' = "clone_shallow"
                    /\ UNCHANGED results
    /\ UNCHANGED <<loop, dirs, repo_url, commit_hash, handles, repo, tag_log, scans>>

\* a do_verify that catches what download() raises and returns
Download_Caught == DownloadStep("returned")

\* do_verify lines 405-408: no handler is around download(), what it raises
\* leaves do_verify and main
Download == DownloadStep("raised")

\* what git does for a clone: it fails, or it leaves an object store
CloneOutcomes == [ok : {FALSE}, objects : {{}}] \cup [ok : {TRUE}, objects : SUBSET ObjectIds]

\* a Git.run that never checks git's exit status
clone_raises_Never(outcome) == FALSE

\* Git.run with check=True: a failing git raises CalledProcessError
clone_raises(outcome) == ~outcome.ok

\* Git() followed by Git.clone_shallow / Git.clone_full
NewHandle(mode, outcome) ==
    [mode |-> mode, cloned |-> outcome.ok, objects |-> outcome.objects]

\* do_verify line 411 with Verifier.clone_shallow; a raise lands in the
\* except clause of line 416, which goes on to clone_full
CloneShallow ==
    /\ pc = "clone_shallow"
    /\ LET meta == ExtractCommit(tarball.vcs)
       IN  IF meta.raised
           THEN \* line 334: no Git() was made
                /\ pc' = "clone_full"
                /\ UNCHANGED <<commit_hash, handles, repo, dirs>>
           ELSE /\ commit_hash' = meta.value
                /\ \E outcome \in CloneOutcomes :
                    /\ handles' = Append(handles, NewHandle("shallow", outcome))
                    \* Git.__init__ line 158; a failed handle stays referenced
                    \* by the traceback of the exception being handled
                    /\ dirs' = dirs \cup {<<index, Len(handles) + 1>>}
                    /\ IF ~clone_raises(outcome)
                       THEN /\ repo' = Len(handles) + 1
                            /\ pc' = "match_tags"
                       ELSE \* line 343: self.repo stays None
                            /\ pc' = "clone_full"
                            /\ UNCHANGED repo
    /\ UNCHANGED <<loop, repo_url, tarball, fetches, tag_log, scans, results>>

\* what Git.get_tags does: git tag --points-at fails (CalledProcessError)
\* or lists the tags at the commit
TagOutcomes == [raised : {TRUE}, tags : {{}}] \cup [raised : {FALSE}, tags : SUBSET TagNames]

\* a match_tags for which a commit without a matching tag is an error
match_tags_RaiseOnNoMatch(outcome, nn, vv) ==
    IF outcome.raised
    THEN [raised |-> TRUE, success |-> FALSE, matched |-> 0]
    ELSE LET m == FirstMatch(TagCandidates(nn, vv), outcome.tags)
         IN  [raised |-> m = 0, success |-> m # 0, matched |-> m]

\* Verifier.match_tags: when get_tags raised, the handler of line 310 only
\* prints, `tags` stays unbound and try_match raises NameError
match_tags(outcome, nn, vv) ==
    IF outcome.raised
    THEN [raised |-> TRUE, success |-> FALSE, matched |-> 0]
    ELSE LET m == FirstMatch(TagCandidates(nn, vv), outcome.tags)
         IN  [raised |-> FALSE, success |-> m # 0, matched |-> m]

\* do_verify line 412: the return value of match_tags is dropped; a raise
\* lands in the except clause of line 416
MatchTags ==
    /\ pc = "match_tags"
    /\ \E outcome \in TagOutcomes :
        LET r == match_tags(outcome, CrateName, CrateVersion)
        IN  /\ tag_log' = Append(tag_log, [on |-> repo, read |-> ~outcome.raised] @@ r)
            /\ pc' = IF r.raised THEN "clone_full" ELSE "search_blobs"
    /\ UNCHANGED <<loop, dirs, repo_url, tarball, commit_hash, handles, repo,
                   fetches, scans, results>>

\* Verifier.search_blobs on the shallow clone, called from do_verify;
\* onMissing is where control goes when the scan returns False
ShallowScanStep(onMissing) ==
    /\ pc = "search_blobs"
    /\ LET r == search_blobs(tarball.files, handles[repo])
       IN  /\ scans' = Append(scans, [on |-> repo] @@ r)
           /\ IF r.files_unmatched = 0
              THEN /\ results' = Append(results, "blobs-all-present")
                   /\ pc' = "returned"
              ELSE /\ pc' = onMissing
                   /\ UNCHANGED results
    /\ UNCHANGED <<loop, dirs, repo_url, tarball, commit_hash, handles, repo,
                   fetches, tag_log>>

\* a do_verify without the `raise Exception` of line 415
SearchBlobsShallow_NoRaise == ShallowScanStep("returned")

\* do_verify lines 413-415: a failed scan raises into the except clause of
\* line 416, which goes on to clone_full
SearchBlobsShallow == ShallowScanStep("clone_full")

\* do_verify lines 417-419, 421-423 with Verifier.clone_full; onSuccess is
\* the step that follows a clone that did not raise
CloneFullStep(onSuccess) ==
    /\ pc = "clone_full"
    /\ \E outcome \in CloneOutcomes :
        /\ handles' = Append(handles, NewHandle("full", outcome))
        /\ IF ~clone_raises(outcome)
           THEN \* line 350: the Git object self.repo held before loses its
                \* last reference, its TemporaryDirectory is cleaned up
                /\ repo' = Len(handles) + 1
                /\ dirs' = (dirs \ {<<index, repo>>}) \cup {<<index, Len(handles) + 1>>}
                /\ pc' = onSuccess
                /\ UNCHANGED results
           ELSE \* line 423: clone failed, nothing more we can do
                /\ results' = Append(results, "repo-clone-failed")
                /\ dirs' = dirs \cup {<<index, Len(handles) + 1>>}
                /\ pc' = "returned"
                /\ UNCHANGED repo
    /\ UNCHANGED <<loop, repo_url, tarball, commit_hash, fetches, tag_log, scans>>

\* a fallback that correlates the tags again, on the full clone
CloneFull_ThenMatchTags == CloneFullStep("match_tags")

\* do_verify lines 419-420: clone_full is followed by search_blobs alone
CloneFull == CloneFullStep("search_blobs_full")

\* do_verify line 420: the scan of the full clone, its result is the verdict
SearchBlobsFull ==
    /\ pc = "search_blobs_full"
    /\ LET r == search_blobs(tarball.files, handles[repo])
       IN  /\ scans' = Append(scans, [on |-> repo] @@ r)
           /\ results' = Append(results,
                IF r.files_unmatched = 0 THEN "blobs-all-present" ELSE "blobs-missing")
           /\ pc' = "returned"
    /\ UNCHANGED <<loop, dirs, repo_url, tarball, commit_hash, handles, repo,
                   fetches, tag_log>>

\* a return that cleans up the directory of verifier.repo only
ReleasedAtReturn_RepoOnly == dirs \cap {<<index, repo>>}

\* do_verify returns: its frame, the Verifier, the exception it handled and
\* with them every Git object of this crate lose their last reference, and
\* each TemporaryDirectory (Git.__init__ line 158) is cleaned up
ReleasedAtReturn == {d \in dirs : d[1] = index}

\* do_verify returned to the loop of main: the Verifier is dropped and the
\* loop moves to the next row
Return ==
    /\ pc = "returned"
    /\ dirs' = dirs \ ReleasedAtReturn
    /\ done' = Append(done, results)
    /\ index' = index + 1
    /\ pc' = "main"
    /\ repo_url' = ""
    /\ tarball' = None
    /\ commit_hash' = None
    /\ handles' = <<>>
    /\ repo' = 0
    /\ fetches' = <<>>
    /\ tag_log' = <<>>
    /\ scans' = <<>>
    /\ results' = <<>>
    /\ UNCHANGED <<call, crates, rank_arg, rank, sleeps>>

Next ==
    \/ MainLoop
    \/ MainExit
    \/ CheckUrl
    \/ Download
    \/ CloneShallow
    \/ MatchTags
    \/ SearchBlobsShallow
    \/ CloneFull
    \/ SearchBlobsFull
    \/ Return

Spec == Init /\ [][Next]_vars

\* ------------------------------------------------------------ vocabulary
\* do_verify is over for the crate at index: it returned, or it raised
Terminal == pc \in {"returned", "raised"}

\* indices of the handles of this crate by clone mode and clone success
HandlesOf(mode, cloned) ==
    {i \in DOMAIN handles : handles[i].mode = mode /\ handles[i].cloned = cloned}

\* every .rs member of the tarball has a candidate hash in handle h
AllSourcesIn(h) ==
    \A m \in Range(examine_files(tarball.files)) : FileInRepo(h, m.data)

VerificationResults ==
    {"url-missing", "fetch-denied", "archive-invalid", "repo-clone-failed",
     "blobs-all-present", "blobs-missing"}

\* the urlopen call of this crate was answered with HTTP 403
FetchForbidden ==
    fetches # <<>> /\ fetches[1].kind = "HTTPError" /\ fetches[1].code = 403

\* the urlopen call of this crate failed in any other way
FetchFatal ==
    fetches # <<>> /\ fetches[1].kind # "response" /\ ~FetchForbidden

\* the bytes fetched for this crate are no gzip'ed tar archive
FetchedGarbage == fetches # <<>> /\ fetches[1].body = "garbage"

\* the tarball of this crate has no .cargo_vcs_info.json member, or one
\* that is not JSON, or one whose JSON has no git.sha1
MetadataMissing ==
    /\ tarball # None
    /\ \/ tarball.vcs.tag \in {"absent", "badjson"}
       \/ /\ tarball.vcs.tag = "json"
          /\ \/ "git" \notin DOMAIN tarball.vcs.obj
             \/ "sha1" \notin DOMAIN tarball.vcs.obj.git

\* the first scan of this crate was made on the shallow clone and found a
\* file missing
ShallowScanMissing ==
    /\ scans # <<>>
    /\ handles[scans[1].on].mode = "shallow"
    /\ scans[1].files_unmatched > 0

\* ------------------------------------------------------------------ claims

\* C1: whenever the shallow clone of a crate succeeded and every .rs file of
\* its tarball has a candidate hash in that clone, no full clone is ever made
\* for the crate and do_verify ends with blobs-all-present.
C1_ShallowAcceptsWithoutFullClone ==
    \A i \in HandlesOf("shallow", TRUE) :
        AllSourcesIn(handles[i]) =>
            /\ FullCalls = 0
            /\ Terminal => pc = "returned" /\ results = <<"blobs-all-present">>

\* C2: when the scan of the shallow clone reports a missing file, at most one
\* full clone is ever made and exactly one has been made once do_verify is
\* past the clone_full step; the verdict is then that of the scan of the
\* full clone alone: blobs-all-present iff that scan found no file missing.
C2_EscalationExactlyOnce ==
    ShallowScanMissing =>
        /\ pc \in {"clone_full", "search_blobs_full", "returned"}
        /\ FullCalls <= 1
        /\ pc # "clone_full" => FullCalls = 1
        /\ Len(scans) = 2 =>
              /\ handles[scans[2].on].mode = "full"
              /\ handles[scans[2].on].cloned
              /\ scans[2] = [on |-> scans[2].on] @@
                                search_blobs(tarball.files, handles[scans[2].on])
              /\ pc = "returned"
              /\ results = << IF scans[2].files_unmatched = 0
                              THEN "blobs-all-present" ELSE "blobs-missing" >>
        /\ pc = "returned" /\ Len(scans) = 1 => results = <<"repo-clone-failed">>

C2_Witness ==
    /\ ShallowScanMissing
    /\ pc = "returned"
    /\ Len(scans) = 2
    /\ scans[2].files_unmatched = 0
    /\ results = <<"blobs-all-present">>
    /\ FullCalls = 1

\* C3: a crate whose repository url is empty ends with url-missing straight
\* after check_url: no urlopen call and no clone (no Git handle) is made.
C3_MissingUrlShortCircuit ==
    (pc \notin {"main", "exit"} /\ repo_url = "") =>
        /\ pc \in {"check_url", "returned"}
        /\ fetches = <<>>
        /\ handles = <<>>
        /\ pc = "returned" => results = <<"url-missing">>

C3_Witness ==
    pc = "returned" /\ repo_url = "" /\ results = <<"url-missing">>

\* C4: when the tarball has no .cargo_vcs_info.json, or one without git.sha1,
\* no shallow clone and no tag query is made; do_verify goes straight to
\* clone_full, scans the full clone when that clone succeeds, and returns
\* normally with the verdict of the fallback.
C4_NoMetadataGoesToFullClone ==
    MetadataMissing =>
        /\ ShallowCalls = 0
        /\ tag_log = <<>>
        /\ pc \in {"clone_shallow", "clone_full", "search_blobs_full", "returned"}
        /\ pc \in {"search_blobs_full", "returned"} =>
              /\ FullCalls = 1
              /\ handles[1].mode = "full"
        /\ pc = "returned" =>
              /\ Len(scans) = (IF handles[1].cloned THEN 1 ELSE 0)
              /\ results = << IF ~handles[1].cloned THEN "repo-clone-failed"
                              ELSE IF AllSourcesIn(handles[1]) THEN "blobs-all-present"
                              ELSE "blobs-missing" >>

C4_Witness ==
    /\ MetadataMissing
    /\ tarball.vcs.tag = "absent"
    /\ pc = "returned"
    /\ Len(scans) = 1
    /\ results = <<"blobs-all-present">>

\* C5: when the shallow clone fails, the failed handle never becomes
\* verifier.repo, no tag query and no scan is made on it, and do_verify goes
\* on to exactly one clone_full.
C5_FailedShallowGoesToFullClone ==
    \A i \in HandlesOf("shallow", FALSE) :
        /\ repo # i
        /\ tag_log = <<>>
        /\ \A k \in DOMAIN scans : scans[k].on # i
        /\ pc \in {"clone_full", "search_blobs_full", "returned"}
        /\ pc # "clone_full" => FullCalls = 1

C5_Witness ==
    /\ HandlesOf("shallow", FALSE) # {}
    /\ pc = "returned"
    /\ FullCalls = 1
    /\ Len(scans) = 1

\* C6: when urlopen is answered with HTTP 403, do_verify returns normally
\* with fetch-denied, having made no clone, and the loop of main is free to
\* go on to the next crate.
C6_ForbiddenIsPerPackage ==
    FetchForbidden =>
        /\ pc = "returned"
        /\ results = <<"fetch-denied">>
        /\ handles = <<>>
        /\ ENABLED Return

C6_Witness ==
    FetchForbidden /\ pc = "returned" /\ index + 1 < RankEnd

\* C7: when urlopen fails in any way other than HTTP 403, the error leaves
\* do_verify and main: no clone was made for the crate, and no further step
\* (no later crate) is ever taken.
C7_OtherFetchFailureAbortsBatch ==
    FetchFatal =>
        /\ pc = "raised"
        /\ handles = <<>>
        /\ ~ENABLED Next

C7_Witness ==
    FetchFatal /\ pc = "raised" /\ index + 1 < RankEnd

\* C8: when the fetched bytes are no valid archive, do_verify ends with
\* archive-invalid without a clone and returns to the loop of main, which
\* goes on to the remaining crates.
C8_ArchiveInvalidIsPerPackage ==
    FetchedGarbage =>
        /\ results = <<"archive-invalid">>
        /\ handles = <<>>
        /\ pc = "returned"
        /\ ENABLED Return

\* C9: when clone_full fails, do_verify returns normally with
\* repo-clone-failed: the failed handle is never scanned, no further clone
\* is made, and the loop of main is free to go on to the next crate.
C9_FailedFullCloneEndsPackage ==
    \A i \in HandlesOf("full", FALSE) :
        /\ pc = "returned"
        /\ results = <<"repo-clone-failed">>
        /\ repo # i
        /\ \A k \in DOMAIN scans : scans[k].on # i
        /\ FullCalls = 1
        /\ i = Len(handles)
        /\ ENABLED Return

C9_Witness ==
    /\ HandlesOf("full", FALSE) # {}
    /\ pc = "returned"
    /\ results = <<"repo-clone-failed">>
    /\ index + 1 < RankEnd

C11_QueriesOnlyOnClonedHandles ==
    /\ \A k \in DOMAIN tag_log :
          tag_log[k].on \in DOMAIN handles /\ handles[tag_log[k].on].cloned
    /\ \A k \in DOMAIN scans :
          scans[k].on \in DOMAIN handles /\ handles[scans[k].on].cloned
    /\ pc \in {"match_tags", "search_blobs", "search_blobs_full"} =>
          repo \in DOMAIN handles /\ handles[repo].cloned

C11_Witness ==
    /\ Len(tag_log) = 1
    /\ Len(scans) = 2
    /\ HandlesOf("shallow", TRUE) # {}
    /\ HandlesOf("full", TRUE) # {}

\* C12: every temporary directory on disk belongs to a Git handle of the
\* crate being verified; none exists before the first clone of a crate, when
\* do_verify is left by an exception, between two crates or after the loop.
C12_StorageReleasedBeforeNextPackage ==
    /\ \A d \in dirs : d[1] = index /\ d[2] \in DOMAIN handles
    /\ pc \in {"main", "exit", "raised", "check_url", "download", "clone_shallow"} =>
          dirs = {}

C12_Witness ==
    /\ pc = "check_url"
    /\ dirs = {}
    /\ done # <<>>
    /\ done[Len(done)] = <<"blobs-missing">>

\* C13: when the tags at the commit were read and none of the four candidate
\* names is among them, do_verify goes on to the scan of the shallow clone,
\* and a full clone is made iff that scan finds a file missing.
C13_TagNoMatchOnlyLogged ==
    \A k \in DOMAIN tag_log :
        (tag_log[k].read /\ ~tag_log[k].success) =>
            /\ pc \in {"search_blobs", "clone_full", "search_blobs_full", "returned"}
            /\ pc # "search_blobs" =>
                  /\ scans # <<>>
                  /\ scans[1].on = tag_log[k].on
                  /\ scans[1].files_unmatched = 0 =>
                        /\ pc = "returned"
                        /\ FullCalls = 0
                        /\ results = <<"blobs-all-present">>
                  /\ (scans[1].files_unmatched > 0 /\ pc # "clone_full") =>
                        FullCalls = 1

C13_Witness ==
    /\ tag_log # <<>>
    /\ tag_log[1].read
    /\ ~tag_log[1].success
    /\ pc = "returned"
    /\ FullCalls = 0
    /\ results = <<"blobs-all-present">>

\* positions of the .rs members in the tarball of this crate
SourcePositions ==
    {i \in DOMAIN tarball.files : MatchesRs(tarball.files[i].name)}

\* the verdict that ended this do_verify call came from its last scan
EndedByScan ==
    pc = "returned" /\ scans # <<>> /\ results # <<"repo-clone-failed">>

\* C15: every scan counts each .rs member of the tarball once, whatever the
\* earlier members gave; its unmatched count is the number of .rs members
\* none of whose candidate hashes is in the scanned repository; and the
\* scan that ends do_verify gives blobs-all-present iff that count is zero.
C15_ScanNeverShortCircuits ==
    /\ \A k \in DOMAIN scans :
          LET objects == handles[scans[k].on].objects
              absent == {i \in SourcePositions :
                            \A c \in Range(hash_blob(tarball.files[i].data)) :
                                c \notin objects}
          IN  /\ scans[k].file_count = Cardinality(SourcePositions)
              /\ scans[k].files_unmatched = Cardinality(absent)
    /\ EndedByScan =>
          (results = <<"blobs-all-present">> <=> scans[Len(scans)].files_unmatched = 0)
    /\ EndedByScan =>
          (results = <<"blobs-missing">> <=> scans[Len(scans)].files_unmatched > 0)

C15_Witness ==
    /\ EndedByScan
    /\ scans[Len(scans)].file_count = 2
    /\ scans[Len(scans)].files_unmatched = 2
    /\ results = <<"blobs-missing">>

\* the candidate set of a file: the content address of its bytes and, if
\* they hold a CRLF, that of the bytes with every CRLF replaced by LF
CandidateSet(data) ==
    {hashit(data)} \cup (IF HasCRLF(data) THEN {hashit(ReplaceCRLF(data))} ELSE {})

\* C17: in every scan the files counted as matched are exactly the .rs
\* members with at least one candidate hash in the scanned repository, so a
\* file is counted unmatched only when all its candidates are absent.
C17_PresentIffAnyCandidate ==
    \A k \in DOMAIN scans :
        LET objects == handles[scans[k].on].objects
            present == {i \in SourcePositions :
                           CandidateSet(tarball.files[i].data) \cap objects # {}}
        IN  scans[k].file_count - scans[k].files_unmatched = Cardinality(present)

\* a scan that matched a CRLF file by its normalized hash alone
C17_Witness ==
    \E k \in DOMAIN scans :
        /\ scans[k].files_unmatched = 0
        /\ \E i \in SourcePositions :
              /\ HasCRLF(tarball.files[i].data)
              /\ hashit(tarball.files[i].data) \notin handles[scans[k].on].objects
              /\ hashit(ReplaceCRLF(tarball.files[i].data)) \in handles[scans[k].on].objects

\* ------------------------------------------------- version strings, semver
\* largest number of version rows of one crate in versions.csv
MaxVersions == 4
\* largest number of bytes of a file given to hash_blob
MaxDataLen == 3

\* the characters of the version strings below, in code point order
Alphabet ==
    << "+", "-", ".", "0", "1", "2", "9", "a", "b", "e", "g", "o", "s", "t", "u" >>

\* position of a character in the order of code points
CodePoint(c) == CHOOSE i \in DOMAIN Alphabet : Alphabet[i] = c

DigitChars == << "0", "1", "2", "3", "4", "5", "6", "7", "8", "9" >>

IsDigit(c) == c \in Range(DigitChars)

DigitValue(c) == (CHOOSE i \in DOMAIN DigitChars : DigitChars[i] = c) - 1

\* int() of a string of digits
RECURSIVE ToInt(_)
ToInt(s) ==
    IF s = <<>> THEN 0
    ELSE ToInt(SubSeq(s, 1, Len(s) - 1)) * 10 + DigitValue(s[Len(s)])

\* str.find: position of the first c in s, 0 when there is none
IndexOf(s, c) ==
    IF \E i \in DOMAIN s : s[i] = c
    THEN CHOOSE i \in DOMAIN s : s[i] = c /\ \A j \in 1..(i - 1) : s[j] # c
    ELSE 0

\* str.split(c)
RECURSIVE SplitOn(_, _)
SplitOn(s, c) ==
    LET i == IndexOf(s, c)
    IN  IF i = 0 THEN <<s>>
        ELSE <<SubSeq(s, 1, i - 1)>> \o SplitOn(SubSeq(s, i + 1, Len(s)), c)

\* Python's < on str: lexicographic by code point
RECURSIVE StrLess(_, _)
StrLess(a, b) ==
    IF b = <<>> THEN FALSE
    ELSE IF a = <<>> THEN TRUE
    ELSE IF a[1] # b[1] THEN CodePoint(a[1]) < CodePoint(b[1])
    ELSE StrLess(Tail(a), Tail(b))

\* semver grammar: 0|[1-9]\d*
IsNumericId(p) ==
    /\ p # <<>>
    /\ \A i \in DOMAIN p : IsDigit(p[i])
    /\ Len(p) > 1 => p[1] # "0"

\* semver grammar: [0-9a-zA-Z-]+
IsAlnumId(p) == p # <<>> /\ \A i \in DOMAIN p : p[i] \notin {".", "+"}

\* semver grammar: a prerelease identifier is numeric without leading zero,
\* or holds a character that is no digit
IsPreId(p) == IsNumericId(p) \/ (IsAlnumId(p) /\ \E i \in DOMAIN p : ~IsDigit(p[i]))

\* semver.VersionInfo.parse: major.minor.patch[-prerelease][+build]; build
\* takes no part in comparisons and is not kept
SemverParse(s) ==
    LET plus == IndexOf(s, "+")
        head == IF plus = 0 THEN s ELSE SubSeq(s, 1, plus - 1)
        build == IF plus = 0 THEN <<>> ELSE SubSeq(s, plus + 1, Len(s))
        dash == IndexOf(head, "-")
        core == IF dash = 0 THEN head ELSE SubSeq(head, 1, dash - 1)
        pre == IF dash = 0 THEN <<>> ELSE SubSeq(head, dash + 1, Len(head))
        nums == SplitOn(core, ".")
        ok == /\ Len(nums) = 3
              /\ \A i \in DOMAIN nums : IsNumericId(nums[i])
              /\ dash # 0 => \A q \in Range(SplitOn(pre, ".")) : IsPreId(q)
              /\ plus # 0 => \A q \in Range(SplitOn(build, ".")) : IsAlnumId(q)
    IN  IF ok
        THEN [ok |-> TRUE, major |-> ToInt(nums[1]), minor |-> ToInt(nums[2]),
              patch |-> ToInt(nums[3]), pre |-> pre]
        ELSE [ok |-> FALSE, major |-> 0, minor |-> 0, patch |-> 0, pre |-> <<>>]

\* SEMVER_PLACEHOLDER = semver.VersionInfo.parse('0.0.0')
SEMVER_PLACEHOLDER == SemverParse(<<"0", ".", "0", ".", "0">>)

\* try_semver: the parsed version, the placeholder when parse raises
try_semver(s) == IF SemverParse(s).ok THEN SemverParse(s) ELSE SEMVER_PLACEHOLDER

\* comparison of two prerelease identifiers: numeric ones by value and below
\* the others, the others as strings; -1, 0 or 1
PreIdCmp(p, q) ==
    IF IsNumericId(p) /\ IsNumericId(q)
    THEN (IF ToInt(p) < ToInt(q) THEN -1 ELSE IF ToInt(p) > ToInt(q) THEN 1 ELSE 0)
    ELSE IF IsNumericId(p) THEN -1
    ELSE IF IsNumericId(q) THEN 1
    ELSE IF StrLess(p, q) THEN -1 ELSE IF StrLess(q, p) THEN 1 ELSE 0

\* comparison of two prereleases, identifier by identifier
RECURSIVE PreCmp(_, _)
PreCmp(ps, qs) ==
    IF ps = <<>> /\ qs = <<>> THEN 0
    ELSE IF ps = <<>> THEN -1
    ELSE IF qs = <<>> THEN 1
    ELSE IF PreIdCmp(ps[1], qs[1]) # 0 THEN PreIdCmp(ps[1], qs[1])
    ELSE PreCmp(Tail(ps), Tail(qs))

\* VersionInfo.compare: major, minor, patch, then the prerelease, where a
\* version without prerelease is above the same version with one
VersionCmp(v, w) ==
    IF v.major # w.major THEN (IF v.major < w.major THEN -1 ELSE 1)
    ELSE IF v.minor # w.minor THEN (IF v.minor < w.minor THEN -1 ELSE 1)
    ELSE IF v.patch # w.patch THEN (IF v.patch < w.patch THEN -1 ELSE 1)
    ELSE IF v.pre = <<>> /\ w.pre = <<>> THEN 0
    ELSE IF v.pre = <<>> THEN 1
    ELSE IF w.pre = <<>> THEN -1
    ELSE PreCmp(SplitOn(v.pre, "."), SplitOn(w.pre, "."))

\* Python's < on the tuples (VersionInfo, str) of load_versions: the first
\* items decide unless they compare equal, then the strings do
PairLess(a, b) ==
    IF VersionCmp(a[1], b[1]) # 0 THEN VersionCmp(a[1], b[1]) < 0
    ELSE StrLess(a[2], b[2])

\* CratesDbDump.load_versions: the (try_semver(num), num) tuples of a crate
load_versions(nums) == [i \in DOMAIN nums |-> <<try_semver(nums[i]), nums[i]>>]

\* sorted(vlist, reverse=True): a stable sort, largest first
RECURSIVE SortedReverse(_)
SortedReverse(vlist) ==
    IF vlist = <<>> THEN <<>>
    ELSE LET rest == SortedReverse(SubSeq(vlist, 1, Len(vlist) - 1))
             x == vlist[Len(vlist)]
             k == Cardinality({i \in DOMAIN rest : ~PairLess(rest[i], x)})
         IN  SubSeq(rest, 1, k) \o <<x>> \o SubSeq(rest, k + 1, Len(rest))

\* a latest_version that sorts without reverse=True
latest_version_Ascending(vlist) ==
    IF vlist = <<>> THEN [raised |-> TRUE, value |-> <<>>]
    ELSE [raised |-> FALSE, value |-> SortedReverse(vlist)[Len(vlist)][2]]

\* latest_version: sorted(vlist, reverse=True)[0][1]; IndexError when empty
latest_version(vlist) ==
    IF vlist = <<>> THEN [raised |-> TRUE, value |-> <<>>]
    ELSE [raised |-> FALSE, value |-> SortedReverse(vlist)[1][2]]

\* ------------------------------------------ the pure functions on their own
\* version strings a crate's rows of versions.csv may hold
VersionStrings ==
    { <<"1", ".", "0", ".", "0">>,
      <<"b", "o", "g", "u", "s">>,
      <<"2", ".", "0", ".", "0", "-", "b", "e", "t", "a">>,
      <<"1", ".", "9", ".", "9">>,
      <<"0", ".", "0", ".", "0">>,
      <<"0", ".", "0", ".", "0", "-", "a">>,
      <<"1", ".", "0", ".", "0", "+", "b">> }

\* the version column of one crate, in file order
VersionLists == SeqsUpTo(VersionStrings, MaxVersions)

\* file contents given to hash_blob
BlobInputs == SeqsUpTo({"CR", "LF", "x"}, MaxDataLen)

\* one call of a function: its argument, then its result
InitFn ==
    /\ \/ call \in [fn : {"hash_blob"}, arg : BlobInputs, returned : {FALSE}, out : {<<>>}]
       \/ call \in [fn : {"match_tags"}, arg : TagOutcomes, returned : {FALSE}, out : {<<>>}]
       \/ call \in [fn : {"latest_version"}, arg : VersionLists, returned : {FALSE}, out : {<<>>}]
    /\ crates = [i \in 1..NumCrates |-> CHOOSE r \in CrateRows : TRUE]
    /\ rank_arg = <<0>>
    /\ rank = parse_range(rank_arg)
    /\ dirs = {}
    /\ index = 0
    /\ pc = "fn"
    /\ sleeps = 0
    /\ done = <<>>
    /\ repo_url = ""
    /\ tarball = None
    /\ commit_hash = None
    /\ handles = <<>>
    /\ repo = 0
    /\ fetches = <<>>
    /\ tag_log = <<>>
    /\ scans = <<>>
    /\ results = <<>>

Pending(fn) == pc = "fn" /\ call.fn = fn /\ ~call.returned

Returns(out) ==
    /\ call' = [call EXCEPT !.returned = TRUE, !.out = out]
    /\ UNCHANGED <<verifier, crates, rank_arg, rank, dirs, index, pc, sleeps, done>>

CallHashBlob == Pending("hash_blob") /\ Returns(hash_blob(call.arg))

CallMatchTags ==
    Pending("match_tags") /\ Returns(match_tags(call.arg, CrateName, CrateVersion))

CallLatestVersion ==
    Pending("latest_version") /\ Returns(latest_version(load_versions(call.arg)))

NextFn == CallHashBlob \/ CallMatchTags \/ CallLatestVersion

SpecFn == InitFn /\ [][NextFn]_vars

Returned(fn) == pc = "fn" /\ call.fn = fn /\ call.returned

\* the four spellings of a release tag for foo 1.2.3, in the order of spec
\* and source
Spellings ==
    << <<"1.2.3">>, <<"v", "1.2.3">>, <<"foo", "-", "1.2.3">>, <<"foo", "-", "v", "1.2.3">> >>

\* C14: match_tags succeeds iff at least one of the candidates version,
\* 'v'+version, name+'-'+version, name+'-v'+version is among the tags at
\* the commit, and the candidate it reports is the first of them, in that
\* order, that is present; tags {v1.2.3} match by the second candidate.
C14_FirstPresentCandidateWins ==
    (Returned("match_tags") /\ ~call.arg.raised) =>
        LET present == {i \in 1..4 : Spellings[i] \in call.arg.tags}
        IN  /\ ~call.out.raised
            /\ call.out.success <=> present # {}
            /\ present = {} => call.out.matched = 0
            /\ present # {} =>
                  /\ call.out.matched \in present
                  /\ \A i \in present : call.out.matched <= i
            /\ call.arg.tags = {<<"v", "1.2.3">>} => call.out.matched = 2

\* two spellings are present and the reported one is the earlier
C14_Witness ==
    /\ Returned("match_tags")
    /\ call.arg.tags = {<<"v", "1.2.3">>, <<"foo", "-", "1.2.3">>}
    /\ call.out.success
    /\ call.out.matched = 2

\* positions of the carriage returns that a line feed follows
CRLFPositions(data) ==
    {i \in 1..(Len(data) - 1) : data[i] = "CR" /\ data[i + 1] = "LF"}

\* data without the bytes at the positions drop
Without(data, drop) ==
    LET kept == DOMAIN data \ drop
    IN  [k \in 1..Cardinality(kept) |->
            data[CHOOSE i \in kept : Cardinality({j \in kept : j < i}) = k - 1]]

\* C16: hash_blob returns one hash, the content address of the raw bytes,
\* when the bytes hold no CRLF, and two when they hold one: the raw
\* hash, then the content address of the bytes with every CRLF replaced by
\* LF, computed with the length of the replaced bytes.
C16_OneHashOrRawThenNormalized ==
    Returned("hash_blob") =>
        LET data == call.arg
            norm == Without(data, CRLFPositions(data))
        IN  /\ CRLFPositions(data) = {} =>
                  call.out = << <<"blob ", Len(data), "NUL">> \o data >>
            /\ CRLFPositions(data) # {} =>
                  call.out = << <<"blob ", Len(data), "NUL">> \o data,
                                <<"blob ", Len(norm), "NUL">> \o norm >>

\* a file with a CRLF whose two hashes differ in the length they carry
C16_Witness ==
    /\ Returned("hash_blob")
    /\ call.arg = <<"x", "CR", "LF">>
    /\ Len(call.out) = 2
    /\ call.out[2] = <<"blob ", 2, "NUL", "x", "LF">>

\* C18: for a non-empty collection of version strings, well-formed or not,
\* latest_version over the try_semver pairs does not raise and returns the
\* raw string of the pair that is maximal under (parsed value, raw string);
\* from 1.0.0, bogus, 2.0.0-beta, 1.9.9 it selects 2.0.0-beta; it raises
\* only when the collection is empty.
C18_LatestIsMaximalPair ==
    Returned("latest_version") =>
        LET nums == call.arg
            pair(i) == <<try_semver(nums[i]), nums[i]>>
        IN  /\ call.out.raised <=> nums = <<>>
            /\ nums # <<>> =>
                  \E i \in DOMAIN nums :
                      /\ call.out.value = nums[i]
                      /\ \A j \in DOMAIN nums : ~PairLess(pair(i), pair(j))
            /\ nums = << <<"1", ".", "0", ".", "0">>,
                         <<"b", "o", "g", "u", "s">>,
                         <<"2", ".", "0", ".", "0", "-", "b", "e", "t", "a">>,
                         <<"1", ".", "9", ".", "9">> >>
                  => call.out.value = <<"2", ".", "0", ".", "0", "-", "b", "e", "t", "a">>

\* the collection of the example has been resolved
C18_Witness ==
    /\ Returned("latest_version")
    /\ Len(call.arg) = 4
    /\ call.arg[2] = <<"b", "o", "g", "u", "s">>
    /\ call.arg[3] = <<"2", ".", "0", ".", "0", "-", "b", "e", "t", "a">>
    /\ ~call.out.raised
    /\ call.out.value = call.arg[3]

\* C19: a string that fails to parse sorts after every string that parses:
\* whenever the collection holds a well-formed version string,
\* latest_version returns a well-formed one.
C19_MalformedNeverWins ==
    (Returned("latest_version") /\ \E i \in DOMAIN call.arg : SemverParse(call.arg[i]).ok)
        => SemverParse(call.out.value).ok

\* ranks of the packages verified so far: main verifies consecutive ranks
\* from the first rank of the option on, one entry of done each
VerifiedRanks == {rank_arg[1] + k - 1 : k \in 1..Len(done)}

\* ranks that exist in the database dump (ranks count from 0)
Ranks == 0..(Len(crates) - 1)

\* C20: when the run ends normally, a rank option 'start-end' has had the
\* packages at ranks start through end inclusive verified, and a single
\* index N exactly the package at rank N.
C20_RankRangeInclusive ==
    pc = "exit" =>
        /\ Len(rank_arg) = 2 => VerifiedRanks = (rank_arg[1]..rank_arg[2]) \cap Ranks
        /\ Len(rank_arg) = 1 => VerifiedRanks = {rank_arg[1]} \cap Ranks

\* C21: tag correlation runs at most once per package and only against the
\* shallow clone: a tags-at query is never issued once a full clone has been
\* attempted, and never a second time for the same package.
C21_TagsOnceAndOnlyOnShallow ==
    [][ (tag_log' # tag_log /\ tag_log' # <<>>) =>
            /\ Len(tag_log') = 1
            /\ FullCalls = 0
            /\ handles[tag_log'[1].on].mode = "shallow" ]_vars

\* a package that went through the fallback: two scans, one tags-at query
C21_Witness ==
    /\ pc = "returned"
    /\ HandlesOf("full", TRUE) # {}
    /\ Len(scans) = 2
    /\ Len(tag_log) = 1
    /\ handles[tag_log[1].on].mode = "shallow"

\* packages of the batch whose verification has begun
Started == Len(done) + (IF pc \in {"main", "exit"} THEN 0 ELSE 1)

\* C22: in a batch over a rank range the delay has occurred exactly once
\* for every two successive packages begun: none before the first package,
\* none between the steps of one package, one before each later package,
\* whatever the results of the packages before it.
C22_OneDelayBetweenPackages ==
    sleeps = IF Started = 0 THEN 0 ELSE Started - 1

\* a batch of two packages with different results and one delay
C22_Witness ==
    /\ pc = "exit"
    /\ Len(done) = 2
    /\ done[1] # done[2]
    /\ sleeps = 1

\* C23: when reading the tags at the commit fails after a successful shallow
\* clone, match_tags reports no match without raising, the scan of the
\* shallow clone still runs, and a scan that finds every file ends the
\* package without a full clone.
C23_TagReadFailureOnlyLogged ==
    \A k \in DOMAIN tag_log :
        ~tag_log[k].read =>
            /\ ~tag_log[k].raised
            /\ ~tag_log[k].success
            /\ pc \in {"search_blobs", "clone_full", "search_blobs_full", "returned"}
            /\ pc # "search_blobs" =>
                  /\ scans # <<>>
                  /\ scans[1].on = tag_log[k].on
                  /\ scans[1].files_unmatched = 0 => FullCalls = 0

\* the tarball of this crate has no member that matches '.*\.rs$'
NoSourceMember == \A i \in DOMAIN tarball.files : ~MatchesRs(tarball.files[i].name)

\* C24: for a tarball without a member matching the source-file pattern,
\* every scan checks zero files and reports none missing, and after a
\* successful shallow clone no full clone is made and the package ends
\* blobs-all-present by the scan of the shallow clone.
C24_NoSourcesAcceptedOnShallow ==
    (HandlesOf("shallow", TRUE) # {} /\ NoSourceMember) =>
        /\ \A k \in DOMAIN scans :
              scans[k].file_count = 0 /\ scans[k].files_unmatched = 0
        /\ FullCalls = 0
        /\ pc = "returned" =>
              /\ results = <<"blobs-all-present">>
              /\ Len(scans) = 1
              /\ handles[scans[1].on].mode = "shallow"

====
